---- MODULE Spec2Model ----
(***************************************************************************)
(* Model of the client-side record cache, its chunked persistent store     *)
(* and the local search of                                                 *)
(*   src/ChatAlchemy_Md_Shifatul_Ahsan_Apurba/src/lib/knowledge.ts         *)
(*                                                                         *)
(* The module-level state of knowledge.ts (cachedData, userUploadedFiles)  *)
(* and the browser's localStorage are the variables.  Every exported       *)
(* function is one action; saveCachedData, which every mutation ends with, *)
(* is part of the action that calls it.  A localStorage.setItem call can   *)
(* throw (quota); which calls throw is an input of the action (a Plan).    *)
(***************************************************************************)
EXTENDS Integers, Sequences, FiniteSets, TLC

VARIABLES
    cachedData,         \* knowledge.ts:14  let cachedData: DataEntry[]
    userUploadedFiles,  \* knowledge.ts:15  let userUploadedFiles: string[]
    localStorage,       \* the browser store: files key, count key, chunk keys
    last,               \* what the last completed call was and what it returned
    ops,                \* number of steps that assign the state
    reading             \* the files whose processFile awaits its read

vars == <<cachedData, userUploadedFiles, localStorage, last, ops, reading>>

----------------------------------------------------------------------------
(* Program constants *)

MAX_CHUNKS == 40

BACKEND == "PharmAlchemy"

----------------------------------------------------------------------------
(* Bounds of the model *)

\* rows of a user file and of the small backend dataset
SmallBatch == 2
\* rows of the large backend dataset (more than MAX_CHUNKS, so that chunks
\* hold more than one record)
BigBatch == 41
\* completed calls in one behaviour
MaxOps == 3
\* steps of the calls that overlap in one behaviour
MaxAsyncOps == 4
\* completed calls in one behaviour over the large datasets
MaxBigOps == 3
\* row counts N of the row commands of the queries: 0 .. MaxCount
MaxCount == 3
\* frames of saveCachedData the call stack holds before RangeError
StackDepth == 8

----------------------------------------------------------------------------
(* JavaScript helpers *)

\* the element of a set of one element
TheOne(S) == CHOOSE v \in S : TRUE

Min(a, b) == IF a < b THEN a ELSE b
Max(a, b) == IF a > b THEN a ELSE b

\* Math.ceil(a / b) for a >= 0, b > 0
CeilDiv(a, b) == (a + b - 1) \div b

\* a slice that includes the element at `end` (a faulty variant of Slice, to
\* show that C18 depends on it)
Slice_Inclusive(s, start, end) == SubSeq(s, start + 1, Min(end + 1, Len(s)))

\* Array.prototype.slice(start, end) with 0 <= start
Slice(s, start, end) == SubSeq(s, start + 1, Min(end, Len(s)))

\* Array.prototype.slice(-k) for k >= 0: the relative start -k is 0 when
\* k = 0 (-0 is 0), so slice(-0) is the whole array
SliceLast(s, k) ==
    IF k = 0 THEN s ELSE SubSeq(s, Max(Len(s) - k, 0) + 1, Len(s))

\* Array.prototype.filter
Filter(s, keep(_)) == SelectSeq(s, keep)

\* Array.prototype.includes
Includes(s, x) == \E i \in 1..Len(s) : s[i] = x

\* Number.prototype.toString and parseInt(_, 10) on the decimal strings the
\* chunk count takes; NaN is -1 (every i < NaN is false, as every i < -1)
Decimal == [n \in 0..(2 * MAX_CHUNKS) |-> ToString(n)]
NumToString(n) == Decimal[n]
ParseInt(str) ==
    IF \E n \in DOMAIN Decimal : Decimal[n] = str
    THEN CHOOSE n \in DOMAIN Decimal : Decimal[n] = str
    ELSE -1

\* JSON.stringify / JSON.parse: a string that JSON.parse reads back, or one
\* it throws on
JsonStringify(arr) == [json |-> TRUE, val |-> [array |-> TRUE, items |-> arr]]
JsonParses(str) == str.json
JsonParse(str) == str.val

\* lz-string compress / decompress: decompress gives back the compressed
\* string, or null/"" (falsy) for a value compress did not produce
Compress(str) == [lz |-> TRUE, body |-> str]
Decompresses(blob) == blob.lz
Decompress(blob) == blob.body

----------------------------------------------------------------------------
(* Records *)

\* a null array entry (a store blob can hold one; the program never makes one)
NullEntry == [null |-> TRUE]
IsNull(e) == DOMAIN e = {"null"}
HasNull(s) == \E i \in 1..Len(s) : IsNull(s[i])

DrugNames == <<"Aspirin", "Ibuprofen", "Codeine">>

\* row i of version ver of a data file; cell 0 / "" is an empty cell
DataRow(ver, i) ==
    [id |-> 100 * ver + i, drug_name |-> DrugNames[((ver + i) % 3) + 1]]
BlankRow == [id |-> 0, drug_name |-> ""]

\* what Papa.parse / sheet_to_json give for version ver with n rows; the
\* first row of every version 2 file has only empty cells
FileRows(ver, n) ==
    [i \in 1..n |-> IF ver = 2 /\ i = 1 THEN BlankRow ELSE DataRow(ver, i)]

\* Object.values(row).some(value => value != null && value !== '')
RowHasValue(row) == row.id # 0 \/ row.drug_name # ""

\* the content string: the citation marker (0: none) and the non-empty
\* "key: value" pairs, which the cells determine
Content(marker, row) ==
    [marker |-> marker, id |-> row.id, drug_name |-> row.drug_name]

\* knowledge.ts:165-179  filter + map of processCsvFile; file is a string
\* for the backend dataset and a File for an upload
CsvRecords(rows, source) ==
    LET kept == Filter(rows, RowHasValue)
    IN [i \in 1..Len(kept) |->
          [id |-> kept[i].id, drug_name |-> kept[i].drug_name,
           source |-> source, content |-> Content(i, kept[i])]]

\* XLSX.utils.sheet_to_json: row objects of the first sheet; a row with no
\* cell value is not in its output
SheetToJson(rows) == Filter(rows, RowHasValue)

\* knowledge.ts:111-120  filter + map of processExcelFile
ExcelRecords(jsonData, source) ==
    LET kept == Filter(jsonData, RowHasValue)
    IN [i \in 1..Len(kept) |->
          [id |-> kept[i].id, drug_name |-> kept[i].drug_name,
           source |-> source, content |-> Content(0, kept[i])]]

----------------------------------------------------------------------------
(* localStorage *)

\* a key of the store: absent (getItem gives null) or holding one string
Absent == <<>>
Holding(str) == <<str>>
IsPresent(item) == item # <<>>
ValueOf(item) == item[1]

\* the store: FILES_KEY, CHUNK_COUNT_KEY and the keys CACHE_KEY_PREFIX + i
\* (chunks is a function from the indices i whose key is present)
EmptyStorage == [files |-> Absent, count |-> Absent, chunks |-> <<>>]

\* getItem(CACHE_KEY_PREFIX + i)
GetChunk(store, i) ==
    IF i \in DOMAIN store.chunks THEN Holding(store.chunks[i]) ELSE Absent

\* knowledge.ts:24 and :57  parseInt(getItem(CHUNK_COUNT_KEY) || '0', 10)
StoredChunkCount(store) ==
    IF IsPresent(store.count) THEN ParseInt(ValueOf(store.count)) ELSE 0

\* a persist that leaves the old chunks in place (a faulty variant of
\* RemoveOldChunks, to show that C28 depends on it)
RemoveOldChunks_None(store) == store

\* knowledge.ts:58-60  removeItem for every i < oldChunkCount
RemoveOldChunks(store) ==
    LET old == StoredChunkCount(store)
        keep == {i \in DOMAIN store.chunks : ~(i < old)}
    IN [store EXCEPT !.chunks = [i \in keep |-> store.chunks[i]]]

----------------------------------------------------------------------------
(* Which setItem calls throw *)

\* One attempt of saveCachedData meets an oracle: whether the write of the
\* file list throws, the chunk indices whose first write throws, those whose
\* retry throws as well, and whether the write of the chunk count throws.
NoFail == [files |-> FALSE, first |-> {}, retry |-> {}, count |-> FALSE]
FilesFail == [NoFail EXCEPT !.files = TRUE]
CountFail == [NoFail EXCEPT !.count = TRUE]
TruncAt(i) == [NoFail EXCEPT !.first = {i}]
AbortAt(i) == [NoFail EXCEPT !.first = {i}, !.retry = {i}]

\* A plan for one call of saveCachedData: the oracle of attempt 1, 2, ... as
\* scripted; after the script every write succeeds, or (full) every write
\* throws for good.
Plan(script, full) == [script |-> script, full |-> full]

NoFailPlan == Plan(<<>>, FALSE)

Plans ==
    {NoFailPlan,
     Plan(<<TruncAt(0)>>, FALSE),
     Plan(<<FilesFail>>, FALSE),
     Plan(<<CountFail>>, FALSE),
     Plan(<<AbortAt(0)>>, FALSE),
     Plan(<<>>, TRUE)}

OracleOf(plan, attempt) ==
    IF attempt <= Len(plan.script) THEN plan.script[attempt]
    ELSE IF plan.full THEN FilesFail ELSE NoFail

----------------------------------------------------------------------------
(* saveCachedData *)

\* Math.floor in the place of Math.ceil, at least 1 (a faulty variant of
\* ItemsPerChunk, to show that C5 depends on it)
ItemsPerChunk_Floor(n) == Max(1, n \div MAX_CHUNKS)

\* knowledge.ts:62  Math.ceil(cachedData.length / MAX_CHUNKS)
ItemsPerChunk(n) == CeilDiv(n, MAX_CHUNKS)

\* knowledge.ts:63-67  the slices [i, i + itemsPerChunk), i = 0, per, 2 per..
\* (no slice when the cache is empty: the loop body never runs)
ChunksOf(cache) ==
    LET per == ItemsPerChunk(Len(cache))
        m == IF Len(cache) = 0 THEN 0 ELSE CeilDiv(Len(cache), per)
    IN [k \in 0..(m - 1) |-> Slice(cache, k * per, k * per + per)]

\* knowledge.ts:76  chunk.slice(0, Math.floor(chunk.length * 0.7)); the
\* double product floors to (7 n) div 10 for every n < 90
ReducedChunk(chunk) == Slice(chunk, 0, (7 * Len(chunk)) \div 10)

\* knowledge.ts:87  cachedData.slice(-Math.floor(cachedData.length * 0.6));
\* the double product floors to (6 n) div 10 for every n up to 200000
ReducedData(cache) == SliceLast(cache, (6 * Len(cache)) \div 10)

\* a blob of the chunk without its last record (a faulty variant of BlobOf,
\* to show that C4 depends on it)
BlobOf_Short(chunk) ==
    Compress(JsonStringify(SubSeq(chunk, 1, Len(chunk) - 1)))

\* knowledge.ts:71-72 and 77-78  compress(JSON.stringify(chunk))
BlobOf(chunk) == Compress(JsonStringify(chunk))

\* knowledge.ts:54-83  the try block of saveCachedData under oracle o:
\* ok is FALSE when it throws to the catch of line 84; store is the store
\* it leaves; fails is the number of setItem calls that threw; aborted
\* tells that the retry of a chunk write (line 79) threw
TrySave(cache, files, store, o) ==
    IF o.files
    THEN [ok |-> FALSE, store |-> store, fails |-> 1, aborted |-> FALSE]
    ELSE
      LET s1 == [store EXCEPT !.files = Holding(JsonStringify(files))]
          s2 == RemoveOldChunks(s1)
          chunks == ChunksOf(cache)
          m == Cardinality(DOMAIN chunks)
          aborting == {i \in DOMAIN chunks : i \in o.first /\ i \in o.retry}
          stop == IF aborting = {} THEN m
                  ELSE CHOOSE i \in aborting : \A j \in aborting : i <= j
          written == [i \in 0..(stop - 1) |->
                        IF i \in o.first THEN BlobOf(ReducedChunk(chunks[i]))
                        ELSE BlobOf(chunks[i])]
          s3 == [s2 EXCEPT !.chunks =
                    [i \in (DOMAIN s2.chunks) \cup (DOMAIN written) |->
                        IF i \in DOMAIN written THEN written[i]
                        ELSE s2.chunks[i]]]
          firstFails == Cardinality({i \in DOMAIN written : i \in o.first})
      IN IF stop < m
         THEN [ok |-> FALSE, store |-> s3, fails |-> firstFails + 2,
               aborted |-> TRUE]
         ELSE IF o.count
         THEN [ok |-> FALSE, store |-> s3, fails |-> firstFails + 1,
               aborted |-> FALSE]
         ELSE [ok |-> TRUE,
               store |-> [s3 EXCEPT !.count = Holding(NumToString(m))],
               fails |-> firstFails, aborted |-> FALSE]

\* the retry without its try/catch (a faulty variant of CatchRetry, to show
\* that C7 depends on it)
CatchRetry_Rethrows(r) == r

\* knowledge.ts:86-92  the inner try/catch around the retry: whatever the
\* nested saveCachedData() throws (RangeError of a full stack) is caught and
\* logged
CatchRetry(r) == [r EXCEPT !.threw = FALSE]

\* knowledge.ts:53-94  saveCachedData() as frame number `frame` of the
\* recursion: the cache and the store it leaves, the number of whole-persist
\* retries, the number of setItem calls that threw, whether it throws to its
\* caller, whether the attempt that ended the recursion met no throwing
\* setItem (clean), and whether the first attempt ended with the retry of a
\* chunk write throwing (aborted).  A call with the stack full throws
\* RangeError before it does anything.
RECURSIVE SaveCachedData(_, _, _, _, _)
SaveCachedData(cache, files, store, plan, frame) ==
    IF frame > StackDepth
    THEN [cache |-> cache, store |-> store, retries |-> 0, fails |-> 0,
          threw |-> TRUE, clean |-> FALSE, aborted |-> FALSE]
    ELSE
      LET t == TrySave(cache, files, store, OracleOf(plan, frame))
      IN IF t.ok
         THEN [cache |-> cache, store |-> t.store, retries |-> 0,
               fails |-> t.fails, threw |-> FALSE, clean |-> t.fails = 0,
               aborted |-> FALSE]
         ELSE
           LET r == CatchRetry(SaveCachedData(ReducedData(cache), files,
                                              t.store, plan, frame + 1))
           IN [cache |-> r.cache, store |-> r.store,
               retries |-> r.retries + 1, fails |-> r.fails + t.fails,
               threw |-> r.threw, clean |-> r.clean, aborted |-> t.aborted]

----------------------------------------------------------------------------
(* loadCachedData *)

\* a chunk read that takes any JSON value for an array (a faulty variant of
\* LoadedChunk, to show that C21 depends on it)
LoadedChunk_AnyValue(store, i) ==
    LET item == GetChunk(store, i)
    IN IF ~IsPresent(item) THEN <<>>
       ELSE IF ~Decompresses(ValueOf(item)) THEN <<>>
       ELSE IF ~JsonParses(Decompress(ValueOf(item))) THEN <<>>
       ELSE JsonParse(Decompress(ValueOf(item))).items

\* knowledge.ts:29-38  what chunk i adds to cachedData: nothing when the key
\* is absent, the blob does not decompress, JSON.parse throws (caught at
\* line 39) or the value is no array
LoadedChunk(store, i) ==
    LET item == GetChunk(store, i)
    IN IF ~IsPresent(item) THEN <<>>
       ELSE IF ~Decompresses(ValueOf(item)) THEN <<>>
       ELSE IF ~JsonParses(Decompress(ValueOf(item))) THEN <<>>
       ELSE IF ~JsonParse(Decompress(ValueOf(item))).array THEN <<>>
       ELSE JsonParse(Decompress(ValueOf(item))).items

RECURSIVE LoadChunks(_, _, _)
LoadChunks(store, i, count) ==
    IF ~(i < count) THEN <<>>
    ELSE LoadedChunk(store, i) \o LoadChunks(store, i + 1, count)

\* knowledge.ts:17-48  loadCachedData() in a process whose uploaded-file
\* list is `files`: the cache and the list it leaves
LoadCachedData(store, files) ==
    IF IsPresent(store.files) /\ ~JsonParses(ValueOf(store.files))
    THEN [cache |-> <<>>, files |-> <<>>]
    ELSE [cache |-> LoadChunks(store, 0, StoredChunkCount(store)),
          files |-> IF IsPresent(store.files)
                    THEN JsonParse(ValueOf(store.files)).items
                    ELSE files]

----------------------------------------------------------------------------
(* Files *)

\* file.name.split('.').pop()?.toLowerCase() for the names of the model
ExtensionOf(name) ==
    CASE name = "a.csv" -> "csv"
      [] name = "b.xlsx" -> "xlsx"
      [] OTHER -> "txt"

\* an uploaded File: its name, whether the FileReader can read it, and its
\* rows (version ver, n rows after the header)
UserFile(name, ver, n) ==
    [name |-> name, ver |-> ver, n |-> n, readable |-> TRUE]

\* files that parse: two versions of a.csv (the second begins with a blank
\* row), a.csv with blank rows only, and a workbook
GoodFiles ==
    {UserFile("a.csv", 1, SmallBatch), UserFile("a.csv", 2, SmallBatch),
     UserFile("a.csv", 2, 1), UserFile("b.xlsx", 1, SmallBatch)}

\* files processFile rejects: unsupported extension, unreadable, no row,
\* a workbook with blank rows only
BadFiles ==
    {UserFile("notes.txt", 1, 1),
     [UserFile("a.csv", 1, 1) EXCEPT !.readable = FALSE],
     UserFile("a.csv", 1, 0),
     UserFile("b.xlsx", 2, 1)}

\* the backend dataset the server holds: whether the fetch succeeds, and
\* its rows
BackendSet(ok, ver, n) == [ok |-> ok, ver |-> ver, n |-> n]

SmallSets ==
    {BackendSet(TRUE, 1, SmallBatch), BackendSet(TRUE, 2, SmallBatch),
     BackendSet(TRUE, 2, 1), BackendSet(FALSE, 1, 1)}

\* datasets of more records than MAX_CHUNKS: BigBatch records, and
\* 2 MAX_CHUNKS - 1 records (a blank row and 2 MAX_CHUNKS - 1 others)
BigSets ==
    {BackendSet(TRUE, 1, BigBatch), BackendSet(TRUE, 2, 2 * MAX_CHUNKS)}

\* knowledge.ts:132-190  processCsvFile: threw, or the records it resolves
ProcessCsvFile(ok, rows, source) ==
    IF ~ok \/ Len(rows) = 0
    THEN [threw |-> TRUE, data |-> <<>>]
    ELSE [threw |-> FALSE, data |-> CsvRecords(rows, source)]

\* knowledge.ts:96-130  processExcelFile: threw, or the records it resolves
ProcessExcelFile(ok, rows, source) ==
    IF ~ok \/ Len(SheetToJson(rows)) = 0
    THEN [threw |-> TRUE, data |-> <<>>]
    ELSE [threw |-> FALSE, data |-> ExcelRecords(SheetToJson(rows), source)]

\* knowledge.ts:193-203  the parse step of processFile
ParseFile(file) ==
    LET ext == ExtensionOf(file.name)
        rows == FileRows(file.ver, file.n)
    IN IF ext = "xlsx" \/ ext = "xls"
       THEN ProcessExcelFile(file.readable, rows, file.name)
       ELSE IF ext = "csv"
       THEN ProcessCsvFile(file.readable, rows, file.name)
       ELSE [threw |-> TRUE, data |-> <<>>]

\* knowledge.ts:225  processCsvFile('ttd_drug_disease.csv')
ParseBackend(set) == ProcessCsvFile(set.ok, FileRows(set.ver, set.n), BACKEND)

----------------------------------------------------------------------------
(* Strings of the search: sequences of characters *)

UpperCase ==
    <<"A", "B", "C", "D", "E", "F", "G", "H", "I", "J", "K", "L", "M",
      "N", "O", "P", "Q", "R", "S", "T", "U", "V", "W", "X", "Y", "Z">>
LowerCase ==
    <<"a", "b", "c", "d", "e", "f", "g", "h", "i", "j", "k", "l", "m",
      "n", "o", "p", "q", "r", "s", "t", "u", "v", "w", "x", "y", "z">>
DigitChars == <<"0", "1", "2", "3", "4", "5", "6", "7", "8", "9">>

LowerChar(c) ==
    IF \E i \in 1..26 : UpperCase[i] = c
    THEN LowerCase[CHOOSE i \in 1..26 : UpperCase[i] = c]
    ELSE c

\* a conversion that leaves the case as it is (a faulty variant of
\* ToLowerCase, to show that C12 depends on it)
ToLowerCase_Same(str) == str

\* String.prototype.toLowerCase
ToLowerCase(str) == [i \in 1..Len(str) |-> LowerChar(str[i])]

\* \s and \d of the regular expressions
IsSpace(c) == c = " "
IsDigit(c) == \E i \in 1..10 : DigitChars[i] = c
DigitValue(c) == (CHOOSE i \in 1..10 : DigitChars[i] = c) - 1

\* String(n) for n >= 0
RECURSIVE NumChars(_)
NumChars(n) ==
    IF n < 10 THEN <<DigitChars[n + 1]>>
    ELSE NumChars(n \div 10) \o <<DigitChars[(n % 10) + 1]>>

\* parseInt(digits, 10) of a non-empty run of digits
RECURSIVE ParseDigits(_)
ParseDigits(digits) ==
    IF Len(digits) = 0 THEN 0
    ELSE 10 * ParseDigits(SubSeq(digits, 1, Len(digits) - 1))
           + DigitValue(digits[Len(digits)])

\* the characters of the cell values of the model
CharsOf(name) ==
    CASE name = "Aspirin" -> <<"A", "s", "p", "i", "r", "i", "n">>
      [] name = "Ibuprofen" -> <<"I", "b", "u", "p", "r", "o", "f", "e", "n">>
      [] name = "Codeine" -> <<"C", "o", "d", "e", "i", "n", "e">>
      [] OTHER -> <<>>

\* String.prototype.includes: term occurs in text
StringIncludes(text, term) ==
    \E i \in 1..(Len(text) - Len(term) + 1) :
        SubSeq(text, i, i + Len(term) - 1) = term

----------------------------------------------------------------------------
(* extractRowsCommand *)

\* the literal lit (lower case) is at position i of str, ignoring case
LiteralAt(str, i, lit) ==
    /\ i + Len(lit) - 1 <= Len(str)
    /\ \A k \in 1..Len(lit) : LowerChar(str[i + k - 1]) = lit[k]

\* (?:a|b|c) at position i: the first alternative that is there, or <<>>
AlternativeAt(str, i, alts) ==
    IF \E a \in 1..Len(alts) : LiteralAt(str, i, alts[a])
    THEN alts[CHOOSE a \in 1..Len(alts) :
                 /\ LiteralAt(str, i, alts[a])
                 /\ \A b \in 1..(a - 1) : ~LiteralAt(str, i, alts[b])]
    ELSE <<>>

\* the first position from i on that holds no white space / no digit
\* (Len + 1 when there is none)
AfterSpaces(str, i) ==
    CHOOSE j \in i..(Len(str) + 1) :
        /\ \A k \in i..(j - 1) : IsSpace(str[k])
        /\ j <= Len(str) => ~IsSpace(str[j])
AfterDigits(str, i) ==
    CHOOSE j \in i..(Len(str) + 1) :
        /\ \A k \in i..(j - 1) : IsDigit(str[k])
        /\ j <= Len(str) => ~IsDigit(str[j])

\* (?:top|first)\s+(\d+) matched at position i: the number captured, or -1
KeywordCountAt(str, i, keywords) ==
    LET kw == AlternativeAt(str, i, keywords)
        sp == i + Len(kw)
        num == AfterSpaces(str, sp)
        end == AfterDigits(str, num)
    IN IF kw = <<>> \/ num = sp \/ end = num THEN -1
       ELSE ParseDigits(SubSeq(str, num, end - 1))

Verbs ==
    <<<<"s", "h", "o", "w">>, <<"g", "e", "t">>,
      <<"d", "i", "s", "p", "l", "a", "y">>>>
TopWords == <<<<"t", "o", "p">>, <<"f", "i", "r", "s", "t">>>>
BottomWords == <<<<"b", "o", "t", "t", "o", "m">>, <<"l", "a", "s", "t">>>>

\* (?:show|get|display)\s+(?:top|first)\s+(\d+) matched at position i
VerbKeywordCountAt(str, i, keywords) ==
    LET verb == AlternativeAt(str, i, Verbs)
        sp == i + Len(verb)
        kw == AfterSpaces(str, sp)
    IN IF verb = <<>> \/ kw = sp THEN -1
       ELSE KeywordCountAt(str, kw, keywords)

\* query.match(regex) of an unanchored pattern: the capture of the leftmost
\* match, or -1
VerbPattern(query, keywords) ==
    LET hits == {i \in 1..Len(query) :
                    VerbKeywordCountAt(query, i, keywords) # -1}
    IN IF hits = {} THEN -1
       ELSE VerbKeywordCountAt(
              query, CHOOSE i \in hits : \A j \in hits : i <= j, keywords)

\* query.match(regex) of a pattern anchored with ^
LeadingPattern(query, keywords) == KeywordCountAt(query, 1, keywords)

\* knowledge.ts:255-260  the patterns, in declaration order
Patterns(query) ==
    <<[type |-> "top", count |-> VerbPattern(query, TopWords)],
      [type |-> "bottom", count |-> VerbPattern(query, BottomWords)],
      [type |-> "top", count |-> LeadingPattern(query, TopWords)],
      [type |-> "bottom", count |-> LeadingPattern(query, BottomWords)]>>

\* the pattern that matches last in declaration order decides (a faulty
\* variant of ExtractRowsCommand, to show that C22 depends on it)
ExtractRowsCommand_LastPattern(query) ==
    LET ps == Patterns(query)
        hits == {k \in 1..Len(ps) : ps[k].count # -1}
    IN IF hits = {} THEN [type |-> "none", count |-> 0]
       ELSE ps[CHOOSE k \in hits : \A j \in hits : k >= j]

\* knowledge.ts:254-273  extractRowsCommand(query): the first pattern that
\* matches, or null (type "none")
ExtractRowsCommand(query) ==
    LET ps == Patterns(query)
        hits == {k \in 1..Len(ps) : ps[k].count # -1}
    IN IF hits = {} THEN [type |-> "none", count |-> 0]
       ELSE ps[CHOOSE k \in hits : \A j \in hits : k <= j]

----------------------------------------------------------------------------
(* extractSearchTerms and searchLocalData *)

StopWords ==
    {<<"s", "h", "o", "w">>, <<"l", "i", "s", "t">>,
     <<"d", "i", "s", "p", "l", "a", "y">>, <<"w", "h", "a", "t">>,
     <<"w", "h", "e", "r", "e">>, <<"f", "i", "n", "d">>, <<"m", "e">>,
     <<"t", "h", "e">>, <<"a">>, <<"a", "n">>, <<"a", "n", "d">>,
     <<"o", "r">>, <<"b", "u", "t">>, <<"i", "n">>, <<"o", "n">>,
     <<"a", "t">>, <<"t", "o">>, <<"f", "o", "r">>, <<"o", "f">>,
     <<"w", "i", "t", "h">>, <<"b", "y">>, <<"t", "a", "b", "l", "e">>,
     <<"d", "a", "t", "a">>,
     <<"i", "n", "f", "o", "r", "m", "a", "t", "i", "o", "n">>,
     <<"a", "b", "o", "u", "t">>, <<"t", "e", "l", "l">>,
     <<"g", "i", "v", "e">>, <<"g", "e", "t">>,
     <<"s", "e", "a", "r", "c", "h">>, <<"t", "o", "p">>,
     <<"b", "o", "t", "t", "o", "m">>, <<"f", "i", "r", "s", "t">>,
     <<"l", "a", "s", "t">>, <<"r", "o", "w", "s">>}

\* punctuation left in place (a faulty variant of Unpunctuated, to show that
\* C24 depends on it)
Unpunctuated_Kept(str) == str

\* replace(/[.,?!]/g, ' ')
Unpunctuated(str) ==
    [i \in 1..Len(str) |->
        IF str[i] \in {".", ",", "?", "!"} THEN " " ELSE str[i]]

\* split(/\s+/): the pieces between runs of white space (an empty piece
\* stands before a leading and after a trailing run)
RECURSIVE SplitSpaces(_)
SplitSpaces(str) ==
    LET cut == CHOOSE j \in 1..(Len(str) + 1) :
                  /\ \A k \in 1..(j - 1) : ~IsSpace(str[k])
                  /\ j <= Len(str) => IsSpace(str[j])
    IN IF cut > Len(str) THEN <<str>>
       ELSE <<SubSeq(str, 1, cut - 1)>>
              \o SplitSpaces(SubSeq(str, AfterSpaces(str, cut), Len(str)))

\* a test that no term passes (a faulty variant of AllDigits, to show that
\* C11 depends on it)
AllDigits_Never(term) == FALSE

\* /^\d+$/.test(term)
AllDigits(term) == Len(term) > 0 /\ \A i \in 1..Len(term) : IsDigit(term[i])

\* knowledge.ts:371-387  extractSearchTerms(query)
ExtractSearchTerms(query) ==
    LET keep(term) ==
            Len(term) > 2 /\ term \notin StopWords /\ ~AllDigits(term)
    IN Filter(SplitSpaces(Unpunctuated(ToLowerCase(query))), keep)

\* Object.keys(entry) of a record of the model
ObjectKeys(entry) == <<"id", "drug_name", "source", "content">>

\* knowledge.ts:301-303 and 338-340  the keys but content and source
HeadersOf(entry) ==
    LET column(key) == key # "content" /\ key # "source"
    IN Filter(ObjectKeys(entry), column)

\* knowledge.ts:393-396  the lower-case text of the values of an entry but
\* content and source, joined with a space
EntryText(entry) ==
    ToLowerCase(NumChars(entry.id) \o <<" ">> \o CharsOf(entry.drug_name))

\* a record matches only when every term is in its text (a faulty variant
\* of EntryMatches, to show that C23 depends on it)
EntryMatches_EveryTerm(entry, terms) ==
    \A t \in 1..Len(terms) :
        StringIncludes(EntryText(entry), ToLowerCase(terms[t]))

\* knowledge.ts:398-400  terms.some(term => entryText.includes(...))
EntryMatches(entry, terms) ==
    \E t \in 1..Len(terms) :
        StringIncludes(EntryText(entry), ToLowerCase(terms[t]))

\* knowledge.ts:389-402  searchLocalData(terms), on a cache with no null
\* entry
SearchLocalData(cache, terms) ==
    IF Len(terms) = 0 THEN <<>>
    ELSE LET hit(entry) == EntryMatches(entry, terms) IN Filter(cache, hit)

\* [...new Set(rows.map(entry => entry.source))]: the sources in order of
\* first appearance
RECURSIVE DistinctSources(_)
DistinctSources(rows) ==
    IF Len(rows) = 0 THEN <<>>
    ELSE LET before == DistinctSources(SubSeq(rows, 1, Len(rows) - 1))
             source == rows[Len(rows)].source
         IN IF Includes(before, source) THEN before
            ELSE Append(before, source)

----------------------------------------------------------------------------
(* searchKnowledgeBase *)

\* the SearchResult object; conditions is always the empty array
SearchResult(text, found, total, terms, columns, sources) ==
    [text |-> text, foundInKnowledgeBase |-> found,
     searchDetails |->
        [totalRecords |-> total, searchTerms |-> terms, conditions |-> <<>>,
         requestedColumns |-> columns, availableColumns |-> columns,
         sources |-> sources]]

\* knowledge.ts:356-367  the result of the catch block
ErrorResult ==
    SearchResult([kind |-> "error"], FALSE, 0, <<>>, <<>>, <<>>)

\* the try block ends with a TypeError: it has no result
Thrown(rows) ==
    [threw |-> TRUE, rows |-> rows, result |-> [exception |-> "TypeError"]]

\* the rows of a row command taken from the wrong end of the cache (a
\* faulty variant of CommandRows, to show that C9 depends on it)
CommandRows_WrongEnd(cache, command) ==
    IF command.type = "top" THEN SliceLast(cache, command.count)
    ELSE Slice(cache, 0, command.count)

\* knowledge.ts:282-284  the rows of a row command
CommandRows(cache, command) ==
    IF command.type = "top" THEN Slice(cache, 0, command.count)
    ELSE SliceLast(cache, command.count)

\* knowledge.ts:280-317  the row-command branch: threw is TRUE when it
\* throws (Object.keys(null), null.source); rows are the rows selected
RowCommandResult(cache, command) ==
    LET rows == CommandRows(cache, command)
    IN IF Len(rows) = 0
       THEN [threw |-> FALSE, rows |-> rows,
             result |-> SearchResult([kind |-> "no data"], FALSE, 0,
                                     <<>>, <<>>, <<>>)]
       ELSE IF HasNull(rows)
       THEN Thrown(rows)
       ELSE [threw |-> FALSE, rows |-> rows,
             result |->
               SearchResult(
                 [kind |-> "showing",
                  which |-> IF command.type = "top" THEN "first" ELSE "last",
                  rows |-> Len(rows)],
                 TRUE, Len(rows), <<>>, HeadersOf(rows[1]),
                 DistinctSources(rows))]

\* knowledge.ts:319-353  the free-text branch: threw is TRUE when it throws
\* (Object.entries(null))
FreeTextResult(cache, query) ==
    LET terms == ExtractSearchTerms(query)
    IN IF Len(terms) > 0 /\ HasNull(cache)
       THEN Thrown(<<>>)
       ELSE
         LET relevant == SearchLocalData(cache, terms)
         IN IF Len(relevant) = 0
            THEN [threw |-> FALSE, rows |-> relevant,
                  result |-> SearchResult([kind |-> "no match"], FALSE, 0,
                                          terms, <<>>, <<>>)]
            ELSE [threw |-> FALSE, rows |-> relevant,
                  result |->
                    SearchResult(
                      [kind |-> "content", content |-> relevant[1].content],
                      TRUE, Len(relevant), terms, HeadersOf(relevant[1]),
                      DistinctSources(relevant))]

\* knowledge.ts:276-353  the try block of searchKnowledgeBase
TrySearch(cache, query) ==
    TheOne({IF command.type # "none" THEN RowCommandResult(cache, command)
            ELSE FreeTextResult(cache, query) :
                command \in {ExtractRowsCommand(query)}})

\* a search without its catch block: the exception reaches the caller (a
\* faulty variant of CatchSearch, to show that C8 depends on it)
CatchSearch_Rethrows(t) ==
    [threw |-> t.threw, caught |-> FALSE, rows |-> t.rows,
     result |-> t.result]

\* knowledge.ts:354-368  the catch block: an exception of the try block
\* becomes the error result; caught tells that it did
CatchSearch(t) ==
    [threw |-> FALSE, caught |-> t.threw, rows |-> t.rows,
     result |-> IF t.threw THEN ErrorResult ELSE t.result]

\* knowledge.ts:275-369  searchKnowledgeBase(query)
SearchKnowledgeBase(cache, query) ==
    TheOne({CatchSearch(t) : t \in {TrySearch(cache, query)}})

----------------------------------------------------------------------------
(* Cache operations *)

\* filters that remove nothing and that remove everything (faulty variants
\* of WithoutSource, to show that C1 and C3 depend on it)
WithoutSource_KeepsAll(cache, s) == cache
WithoutSource_DropsAll(cache, s) == <<>>

\* knowledge.ts:206 and :229  cachedData.filter(entry => entry.source !== s)
WithoutSource(cache, s) == LET keep(e) == e.source # s IN Filter(cache, keep)

\* a filter that removes nothing (a faulty variant of OnlySource, to show
\* that C2 depends on it)
OnlySource_KeepsAll(cache, s) == cache

\* knowledge.ts:243  cachedData.filter(entry => entry.source === s)
OnlySource(cache, s) == LET keep(e) == e.source = s IN Filter(cache, keep)

\* the name never pushed (a faulty variant of Registered, to show that C30
\* depends on it)
Registered_Never(files, name) == files

\* the name pushed whether or not the list includes it (a faulty variant of
\* Registered, to show that C26 depends on it)
Registered_Always(files, name) == Append(files, name)

\* knowledge.ts:210-212  push the name unless the list includes it
Registered(files, name) ==
    IF Includes(files, name) THEN files ELSE Append(files, name)

\* what `last` holds of a call: the function called, whether it threw to
\* its caller, whether it ran saveCachedData(), and of that run the number
\* of whole-persist retries and of setItem calls that threw, and, when it
\* ran, clean and aborted as saveCachedData tells them
NoCall ==
    [op |-> "start", threw |-> FALSE, saved |-> FALSE, retries |-> 0,
     fails |-> 0]
NotSaved(op, threw) == [NoCall EXCEPT !.op = op, !.threw = threw]
Saved(op, r) ==
    [op |-> op, threw |-> r.threw, saved |-> TRUE, retries |-> r.retries,
     fails |-> r.fails, clean |-> r.clean, aborted |-> r.aborted]

Init ==
    /\ cachedData = <<>>
    /\ userUploadedFiles = <<>>
    /\ localStorage = EmptyStorage
    /\ last = NoCall
    /\ ops = 0
    /\ reading = {}

\* a processFile that removes the records of the file name before it knows
\* that the file parses (a faulty variant of FinishProcessFile, to show that
\* C14 depends on it)
FinishProcessFile_RemovesFirst(file, plans) ==
    /\ ops' = ops + 1
    /\ LET p == ParseFile(file)
           kept == WithoutSource(cachedData, file.name)
           files == Registered(userUploadedFiles, file.name)
           r == SaveCachedData(kept \o p.data, files, localStorage,
                               NoFailPlan, 1)
       IN IF p.threw
          THEN /\ cachedData' = kept
               /\ last' = NotSaved("processFile", TRUE)
               /\ UNCHANGED <<userUploadedFiles, localStorage>>
          ELSE /\ cachedData' = r.cache
               /\ userUploadedFiles' = files
               /\ localStorage' = r.store
               /\ last' = [file |-> file,
                           removed |-> Len(cachedData) - Len(kept),
                           again |-> FALSE, during |-> reading \ {file}]
                            @@ Saved("processFile", r)

\* knowledge.ts:196-220  processFile(file) from the moment its read has
\* ended; plans are the ways the writes of its saveCachedData() can go.
\* last also holds the file, the number of records the filter of line 206
\* removed, whether the call before was a processFile of the same name that
\* returned, and the other files whose read was awaited meanwhile.
FinishProcessFile(file, plans) ==
    /\ ops' = ops + 1
    /\ LET p == ParseFile(file)
       IN IF p.threw \/ HasNull(cachedData)
          THEN /\ last' = NotSaved("processFile", TRUE)
               /\ UNCHANGED <<cachedData, userUploadedFiles, localStorage>>
          ELSE
            \E plan \in plans :
              LET kept == WithoutSource(cachedData, file.name)
                  files == Registered(userUploadedFiles, file.name)
                  r == SaveCachedData(kept \o p.data, files, localStorage,
                                      plan, 1)
                  again == /\ last.op = "processFile"
                           /\ last.saved
                           /\ ~last.threw
                           /\ last.file.name = file.name
              IN /\ cachedData' = r.cache
                 /\ userUploadedFiles' = files
                 /\ localStorage' = r.store
                 /\ last' = [file |-> file,
                             removed |-> Len(cachedData) - Len(kept),
                             again |-> again,
                             during |-> reading \ {file}]
                              @@ Saved("processFile", r)

\* knowledge.ts:192-221  processFile(file) with no other call running
\* while it reads
ProcessFile(file, plans) ==
    FinishProcessFile(file, plans) /\ UNCHANGED reading

\* a start of processFile that removes the records of the file name at
\* once (a faulty variant of StartProcessFile, to show that C17 depends on
\* it)
StartProcessFile_RemovesFirst(file) ==
    /\ file \notin reading
    /\ reading' = reading \cup {file}
    /\ ops' = ops + 1
    /\ cachedData' = WithoutSource(cachedData, file.name)
    /\ UNCHANGED <<userUploadedFiles, localStorage, last>>

\* knowledge.ts:192-200  processFile(file) up to the await of the read
StartProcessFile(file) ==
    /\ file \notin reading
    /\ reading' = reading \cup {file}
    /\ ops' = ops + 1
    /\ UNCHANGED <<cachedData, userUploadedFiles, localStorage, last>>

\* knowledge.ts:196-220  the read of a pending processFile(file) ends and
\* the call runs to its end
CompleteProcessFile(file, plans) ==
    /\ file \in reading
    /\ reading' = reading \ {file}
    /\ FinishProcessFile(file, plans)

\* a loadBackendData that replaces the whole cache by its records (a faulty
\* variant of FinishLoadBackendData, to show that C29 depends on it)
FinishLoadBackendData_Overwrites(set, plans) ==
    /\ ops' = ops + 1
    /\ LET p == ParseBackend(set)
       IN IF p.threw \/ (Len(p.data) > 0 /\ HasNull(cachedData))
          THEN /\ last' = NotSaved("loadBackendData", TRUE)
               /\ UNCHANGED <<cachedData, userUploadedFiles, localStorage>>
          ELSE IF Len(p.data) > 0
          THEN
            \E plan \in plans :
              LET kept == <<>>
                  r == SaveCachedData(kept \o p.data, userUploadedFiles,
                                      localStorage, plan, 1)
              IN /\ cachedData' = r.cache
                 /\ localStorage' = r.store
                 /\ last' = [returned |-> Len(p.data),
                             removed |-> Len(cachedData) - Len(kept)]
                              @@ Saved("loadBackendData", r)
                 /\ UNCHANGED userUploadedFiles
          ELSE /\ last' = [returned |-> 0] @@ NotSaved("loadBackendData", FALSE)
               /\ UNCHANGED <<cachedData, userUploadedFiles, localStorage>>

\* knowledge.ts:226-235  loadBackendData() from the end of its await to its
\* end; last also holds the value returned and the number of records the
\* filter of line 229 removed
FinishLoadBackendData(set, plans) ==
    /\ ops' = ops + 1
    /\ LET p == ParseBackend(set)
       IN IF p.threw \/ (Len(p.data) > 0 /\ HasNull(cachedData))
          THEN /\ last' = NotSaved("loadBackendData", TRUE)
               /\ UNCHANGED <<cachedData, userUploadedFiles, localStorage>>
          ELSE IF Len(p.data) > 0
          THEN
            \E plan \in plans :
              LET kept == WithoutSource(cachedData, BACKEND)
                  r == SaveCachedData(kept \o p.data, userUploadedFiles,
                                      localStorage, plan, 1)
              IN /\ cachedData' = r.cache
                 /\ localStorage' = r.store
                 /\ last' = [returned |-> Len(p.data),
                             removed |-> Len(cachedData) - Len(kept)]
                              @@ Saved("loadBackendData", r)
                 /\ UNCHANGED userUploadedFiles
          ELSE /\ last' = [returned |-> 0] @@ NotSaved("loadBackendData", FALSE)
               /\ UNCHANGED <<cachedData, userUploadedFiles, localStorage>>

\* knowledge.ts:223-240  loadBackendData() with no other call running
\* while it fetches
LoadBackendData(set, plans) ==
    FinishLoadBackendData(set, plans) /\ UNCHANGED reading

\* knowledge.ts:223-225  loadBackendData() up to the await of the fetch
StartLoadBackendData(set) ==
    /\ set \notin reading
    /\ reading' = reading \cup {set}
    /\ ops' = ops + 1
    /\ UNCHANGED <<cachedData, userUploadedFiles, localStorage, last>>

\* knowledge.ts:225-240  the fetch of a pending loadBackendData() ends and
\* the call runs to its end
CompleteLoadBackendData(set, plans) ==
    /\ set \in reading
    /\ reading' = reading \ {set}
    /\ FinishLoadBackendData(set, plans)

\* a clearData that persists before it filters (a faulty variant of
\* ClearData, to show that C16 depends on it)
ClearData_SavesFirst(plans) ==
    /\ ops' = ops + 1
    /\ UNCHANGED reading
    /\ \E plan \in plans :
         LET r == SaveCachedData(cachedData, <<>>, localStorage, plan, 1)
             kept == OnlySource(r.cache, BACKEND)
         IN /\ cachedData' = kept
            /\ userUploadedFiles' = <<>>
            /\ localStorage' = r.store
            /\ last' = [removed |-> Len(r.cache) - Len(kept)]
                         @@ Saved("clearData", r)

\* knowledge.ts:242-248  clearData(); last also holds the number of records
\* the filter of line 243 removed
ClearData(plans) ==
    /\ ops' = ops + 1
    /\ UNCHANGED reading
    /\ IF HasNull(cachedData)
       THEN /\ last' = NotSaved("clearData", TRUE)
            /\ UNCHANGED <<cachedData, userUploadedFiles, localStorage>>
       ELSE
         \E plan \in plans :
           LET kept == OnlySource(cachedData, BACKEND)
               r == SaveCachedData(kept, <<>>, localStorage, plan, 1)
           IN /\ cachedData' = r.cache
              /\ userUploadedFiles' = <<>>
              /\ localStorage' = r.store
              /\ last' = [removed |-> Len(cachedData) - Len(kept)]
                           @@ Saved("clearData", r)

\* knowledge.ts:14-15 and :51  a fresh process over the same store: the
\* module is evaluated again, which ends with loadCachedData().  last also
\* holds whether the process before ended with a saveCachedData() in which
\* no setItem threw.
Reload ==
    /\ ops' = ops + 1
    /\ UNCHANGED reading
    /\ LET r == LoadCachedData(localStorage, <<>>)
       IN /\ cachedData' = r.cache
          /\ userUploadedFiles' = r.files
    /\ last' = [afterCleanSave |-> last.saved /\ ~last.threw /\ last.fails = 0]
                 @@ NotSaved("reload", FALSE)
    /\ UNCHANGED localStorage

\* one call, with its inputs drawn from the small sets
Next ==
    \/ /\ ops < MaxOps
       /\ \E file \in GoodFiles \cup BadFiles : ProcessFile(file, Plans)
    \/ /\ ops < MaxOps
       /\ \E set \in SmallSets : LoadBackendData(set, Plans)
    \/ ops < MaxOps /\ ClearData(Plans)
    \/ ops < MaxOps /\ Reload

Spec == Init /\ [][Next]_vars

\* the same calls over the large backend datasets
NextBig ==
    \/ /\ ops < MaxBigOps
       /\ ProcessFile(UserFile("a.csv", 1, SmallBatch), Plans)
    \/ /\ ops < MaxBigOps
       /\ \E set \in BigSets : LoadBackendData(set, Plans)
    \/ ops < MaxBigOps /\ ClearData(Plans)
    \/ ops < MaxBigOps /\ Reload

SpecBig == Init /\ [][NextBig]_vars

----------------------------------------------------------------------------
(* Queries *)

RECURSIVE Join(_)
\* words.join(' ')
Join(words) ==
    IF Len(words) = 1 THEN words[1]
    ELSE words[1] \o <<" ">> \o Join(Tail(words))

\* the words before the count of the row commands of the model: a verb and
\* a keyword, or a leading keyword
Show == <<"s", "h", "o", "w">>
TopCommands ==
    {<<Show, <<"t", "o", "p">>>>,
     <<<<"G", "e", "t">>, <<"f", "i", "r", "s", "t">>>>,
     <<<<"f", "i", "r", "s", "t">>>>}
BottomCommands ==
    {<<Show, <<"b", "o", "t", "t", "o", "m">>>>,
     <<<<"d", "i", "s", "p", "l", "a", "y">>, <<"L", "a", "s", "t">>>>,
     <<<<"b", "o", "t", "t", "o", "m">>>>}

\* the row commands that ask for the first n and for the last n records
TopQueries(n) == {Join(Append(words, NumChars(n))) : words \in TopCommands}
BottomQueries(n) ==
    {Join(Append(words, NumChars(n))) : words \in BottomCommands}

RowQueries ==
    UNION {TopQueries(n) \cup BottomQueries(n) : n \in 0..MaxCount}

\* queries that match no row pattern and whose every token is a stop word,
\* shorter than 3 characters or all digits
NoTermQueries ==
    {
     \* the empty query
     <<>>,
     \* show me the data
     <<"s", "h", "o", "w", " ", "m", "e", " ", "t", "h", "e", " ", "d",
       "a", "t", "a">>,
     \* find ab 20 the
     <<"f", "i", "n", "d", " ", "a", "b", " ", "2", "0", " ", "t", "h",
       "e">>,
     \* What about 101?
     <<"W", "h", "a", "t", " ", "a", "b", "o", "u", "t", " ", "1", "0",
       "1", "?">>}

\* queries that match no row pattern and name drugs, with the drugs named
Aspirin == <<"a", "s", "p", "i", "r", "i", "n">>
DrugQueries ==
    {[query |-> Aspirin, drugs |-> {"Aspirin"}],
     \* Aspirin codeine
     [query |-> <<"A", "s", "p", "i", "r", "i", "n", " ", "c", "o", "d",
                  "e", "i", "n", "e">>,
      drugs |-> {"Aspirin", "Codeine"}],
     \* what about Ibuprofen?
     [query |-> <<"w", "h", "a", "t", " ", "a", "b", "o", "u", "t", " ",
                  "I", "b", "u", "p", "r", "o", "f", "e", "n", "?">>,
      drugs |-> {"Ibuprofen"}],
     \* Profen, spir!
     [query |-> <<"P", "r", "o", "f", "e", "n", ",", " ", "s", "p", "i",
                  "r", "!">>,
      drugs |-> {"Ibuprofen", "Aspirin"}]}

FreeQueries ==
    NoTermQueries \cup {q.query : q \in DrugQueries} \cup
    {
     \* show bottom 1 show top 2
     <<"s", "h", "o", "w", " ", "b", "o", "t", "t", "o", "m", " ", "1",
       " ", "s", "h", "o", "w", " ", "t", "o", "p", " ", "2">>,
     \* first 1 get last 2
     <<"f", "i", "r", "s", "t", " ", "1", " ", "g", "e", "t", " ", "l",
       "a", "s", "t", " ", "2">>,
     \* please reshow top 1x
     <<"p", "l", "e", "a", "s", "e", " ", "r", "e", "s", "h", "o", "w",
       " ", "t", "o", "p", " ", "1", "x">>,
     \* show, top 2
     <<"s", "h", "o", "w", ",", " ", "t", "o", "p", " ", "2">>}

\* queries that match more than one row pattern, or a row pattern and a
\* drug name, with the command the first matching pattern in declaration
\* order gives
OrderedQueries ==
    {
     \* show bottom 1 show top 2
     [query |-> <<"s", "h", "o", "w", " ", "b", "o", "t", "t", "o", "m",
                  " ", "1", " ", "s", "h", "o", "w", " ", "t", "o", "p",
                  " ", "2">>,
      type |-> "top", count |-> 2],
     \* show top 1 show last 2
     [query |-> <<"s", "h", "o", "w", " ", "t", "o", "p", " ", "1", " ",
                  "s", "h", "o", "w", " ", "l", "a", "s", "t", " ", "2">>,
      type |-> "top", count |-> 1],
     \* first 1 get last 2
     [query |-> <<"f", "i", "r", "s", "t", " ", "1", " ", "g", "e", "t",
                  " ", "l", "a", "s", "t", " ", "2">>,
      type |-> "bottom", count |-> 2],
     \* show top 1 Aspirin
     [query |-> <<"s", "h", "o", "w", " ", "t", "o", "p", " ", "1", " ",
                  "A", "s", "p", "i", "r", "i", "n">>,
      type |-> "top", count |-> 1]}

\* free-text queries with the terms they hold: lower case, in query order,
\* of 3 characters or more, no stop word, not all digits
TermQueries ==
    {
     \* what about Ibuprofen?
     [query |-> <<"w", "h", "a", "t", " ", "a", "b", "o", "u", "t", " ",
                  "I", "b", "u", "p", "r", "o", "f", "e", "n", "?">>,
      terms |-> <<<<"i", "b", "u", "p", "r", "o", "f", "e", "n">>>>],
     \* Aspirin codeine
     [query |-> <<"A", "s", "p", "i", "r", "i", "n", " ", "c", "o", "d",
                  "e", "i", "n", "e">>,
      terms |-> <<<<"a", "s", "p", "i", "r", "i", "n">>, <<"c", "o", "d",
                  "e", "i", "n", "e">>>>],
     \* Profen, spir!
     [query |-> <<"P", "r", "o", "f", "e", "n", ",", " ", "s", "p", "i",
                  "r", "!">>,
      terms |-> <<<<"p", "r", "o", "f", "e", "n">>, <<"s", "p", "i", "r">>>>],
     \* find ab 20 the
     [query |-> <<"f", "i", "n", "d", " ", "a", "b", " ", "2", "0", " ",
                  "t", "h", "e">>,
      terms |-> <<>>],
     \* Get a2b 123 COD. cod the ASPIRIN!
     [query |-> <<"G", "e", "t", " ", "a", "2", "b", " ", "1", "2", "3",
                  " ", "C", "O", "D", ".", " ", "c", "o", "d", " ", "t",
                  "h", "e", " ", "A", "S", "P", "I", "R", "I", "N", "!">>,
      terms |-> <<<<"a", "2", "b">>, <<"c", "o", "d">>, <<"c", "o", "d">>,
                  <<"a", "s", "p", "i", "r", "i", "n">>>>]}

Queries ==
    RowQueries \cup FreeQueries \cup {q.query : q \in OrderedQueries}
        \cup {q.query : q \in TermQueries}

----------------------------------------------------------------------------
(* Calls of the search and of the environment *)

\* a search that consumes the first record of the cache (a faulty variant
\* of Search, to show that C13 depends on it)
Search_Consuming(query) ==
    /\ \E s \in {SearchKnowledgeBase(cachedData, query)} :
          last' = [query |-> query, result |-> s.result, rows |-> s.rows,
                   caught |-> s.caught,
                   again |-> last.op = "search" /\ last.query = query]
                    @@ NotSaved("search", s.threw)
    /\ cachedData' = SubSeq(cachedData, 2, Len(cachedData))
    /\ UNCHANGED <<userUploadedFiles, localStorage, ops, reading>>

\* knowledge.ts:275-369  searchKnowledgeBase(query); last also holds the
\* query, the result returned, the rows the call selected, whether its
\* catch block ran, and whether the call before was a search with the same
\* query
Search(query) ==
    /\ \E s \in {SearchKnowledgeBase(cachedData, query)} :
          last' = [query |-> query, result |-> s.result, rows |-> s.rows,
                   caught |-> s.caught,
                   again |-> last.op = "search" /\ last.query = query]
                    @@ NotSaved("search", s.threw)
    /\ UNCHANGED <<cachedData, userUploadedFiles, localStorage, ops,
                   reading>>

\* a blob that lz-string does not decompress
GarbageBlob ==
    [lz |-> FALSE,
     body |-> [json |-> FALSE, val |-> [array |-> FALSE, items |-> <<>>]]]

\* The store after the environment (another script of the origin, the
\* user) has rewritten the blob of chunk i: to garbage, or to the array it
\* held with null in front.
Tampered(store, i, kind) ==
    [store EXCEPT !.chunks[i] =
        IF kind = "garbage" THEN GarbageBlob
        ELSE BlobOf(<<NullEntry>> \o LoadedChunk(store, i))]

\* the store an earlier process leaves that ingested the given batches in
\* turn (files is its uploaded-file list) and met no failing write
StoreOf(batches, files) ==
    SaveCachedData(batches, files, EmptyStorage, NoFailPlan, 1).store

BatchA == ParseFile(UserFile("a.csv", 1, SmallBatch)).data
BatchB == ParseFile(UserFile("b.xlsx", 2, SmallBatch + 1)).data
BatchP == ParseBackend(BackendSet(TRUE, 1, SmallBatch)).data

\* the stores a process of the search specification starts over
SearchStores ==
    LET a == StoreOf(BatchA, <<"a.csv">>)
        pab == StoreOf(BatchP \o BatchA \o BatchB, <<"a.csv", "b.xlsx">>)
        bp == StoreOf(BatchB \o BatchP, <<"b.xlsx">>)
    IN {EmptyStorage, a, pab, bp,
        Tampered(a, 0, "null"), Tampered(pab, 1, "null"),
        Tampered(pab, 0, "garbage"), Tampered(bp, 1, "garbage")}

\* a process that starts over one of these stores, and its searches
InitSearch ==
    /\ localStorage \in SearchStores
    /\ cachedData = LoadCachedData(localStorage, <<>>).cache
    /\ userUploadedFiles = LoadCachedData(localStorage, <<>>).files
    /\ last = NoCall
    /\ ops = 0
    /\ reading = {}

NextSearch == \E query \in Queries : Search(query)

SpecSearch == InitSearch /\ [][NextSearch]_vars

----------------------------------------------------------------------------
(* Calls that overlap *)

\* two versions of a.csv and a workbook, each of SmallBatch records
AsyncFiles ==
    {UserFile("a.csv", 1, SmallBatch), UserFile("a.csv", 2, SmallBatch + 1),
     UserFile("b.xlsx", 1, SmallBatch)}

AsyncPlans == {NoFailPlan, Plan(<<FilesFail>>, FALSE)}

AsyncQueries ==
    {Aspirin, Join(<<Show, <<"t", "o", "p">>, NumChars(MaxCount)>>)}

\* calls of processFile that overlap (each awaits its read, knowledge.ts:198
\* and :200, and runs from there to its end without interruption), and
\* searches between them
NextAsync ==
    \/ ops < MaxAsyncOps /\ \E file \in AsyncFiles : StartProcessFile(file)
    \/ \E file \in AsyncFiles : CompleteProcessFile(file, AsyncPlans)
    \/ \E query \in AsyncQueries : Search(query)

SpecAsync == Init /\ [][NextAsync]_vars

----------------------------------------------------------------------------
(* Uploads and the backend load that overlap *)

MaxOverlapOps == 4

\* two files of different names, one of them in two versions, and two
\* versions of the backend dataset
OverlapFiles ==
    {UserFile("a.csv", 1, SmallBatch), UserFile("a.csv", 2, SmallBatch + 1),
     UserFile("b.xlsx", 1, SmallBatch)}
OverlapSets ==
    {BackendSet(TRUE, 1, SmallBatch), BackendSet(TRUE, 2, SmallBatch + 1)}

\* calls of processFile and of loadBackendData that overlap: each awaits its
\* read (knowledge.ts:198, 200, 225) and runs from there to its end without
\* interruption; no setItem throws
NextOverlap ==
    \/ /\ ops < MaxOverlapOps
       /\ \E file \in OverlapFiles : StartProcessFile(file)
    \/ \E file \in OverlapFiles : CompleteProcessFile(file, {NoFailPlan})
    \/ /\ ops < MaxOverlapOps
       /\ \E set \in OverlapSets : StartLoadBackendData(set)
    \/ \E set \in OverlapSets : CompleteLoadBackendData(set, {NoFailPlan})

SpecOverlap == Init /\ [][NextOverlap]_vars

----------------------------------------------------------------------------
(* A store that another writer of the origin rewrites *)

MaxRestoreOps == 4

\* a blob that decompresses to JSON that is no array: an object that holds
\* the records
ObjectBlob(items) ==
    Compress([json |-> TRUE, val |-> [array |-> FALSE, items |-> items]])

\* a file list JSON.parse rejects
GarbageList == [json |-> FALSE, val |-> [array |-> FALSE, items |-> <<>>]]

TamperKinds == {"garbage", "null", "object", "removed"}

\* the key of chunk i is rewritten or removed between two processes
TamperChunk(i, kind) ==
    /\ i \in DOMAIN localStorage.chunks
    /\ localStorage' =
          IF kind = "removed"
          THEN [localStorage EXCEPT !.chunks =
                  [j \in DOMAIN localStorage.chunks \ {i} |->
                      localStorage.chunks[j]]]
          ELSE IF kind = "object"
          THEN [localStorage EXCEPT !.chunks[i] =
                  ObjectBlob(LoadedChunk(localStorage, i))]
          ELSE Tampered(localStorage, i, kind)
    /\ localStorage' # localStorage
    /\ last' = NotSaved("tamper", FALSE)
    /\ ops' = ops + 1
    /\ UNCHANGED <<cachedData, userUploadedFiles, reading>>

\* the key of the file list is rewritten
TamperFiles ==
    /\ localStorage' = [localStorage EXCEPT !.files = Holding(GarbageList)]
    /\ localStorage' # localStorage
    /\ last' = NotSaved("tamper", FALSE)
    /\ ops' = ops + 1
    /\ UNCHANGED <<cachedData, userUploadedFiles, reading>>

\* a.csv of SmallBatch + 1 records, of one record, and a workbook
RestoreFiles ==
    {UserFile("a.csv", 1, SmallBatch + 1), UserFile("a.csv", 2, SmallBatch),
     UserFile("b.xlsx", 1, SmallBatch)}

\* every write succeeds, or the write of the count throws and every write
\* after it
RestorePlans == {NoFailPlan, Plan(<<CountFail>>, TRUE)}

\* uploads, rewrites of the store by others, and fresh processes over it
NextRestore ==
    \/ /\ ops < MaxRestoreOps
       /\ \E file \in RestoreFiles : ProcessFile(file, RestorePlans)
    \/ /\ ops < MaxRestoreOps
       /\ \E i \in 0..SmallBatch, kind \in TamperKinds : TamperChunk(i, kind)
    \/ ops < MaxRestoreOps /\ TamperFiles
    \/ ops < MaxRestoreOps /\ Reload

SpecRestore == Init /\ [][NextRestore]_vars

----------------------------------------------------------------------------
(* Persists that fail half-way *)

MaxPartialOps == 3

\* a.csv of SmallBatch + 1 records and of SmallBatch records, and a workbook
PartialFiles ==
    {UserFile("a.csv", 1, SmallBatch + 1),
     UserFile("a.csv", 2, SmallBatch + 1),
     UserFile("b.xlsx", 1, SmallBatch)}

\* every write succeeds; the write of the count throws, or both writes of
\* chunk 1, or the first write of chunk 1, and after that attempt every
\* write throws or every write succeeds
PartialPlans ==
    {NoFailPlan,
     Plan(<<CountFail>>, TRUE), Plan(<<CountFail>>, FALSE),
     Plan(<<AbortAt(1)>>, TRUE), Plan(<<AbortAt(1)>>, FALSE),
     Plan(<<TruncAt(1)>>, FALSE)}

NextPartial ==
    \/ /\ ops < MaxPartialOps
       /\ \E file \in PartialFiles : ProcessFile(file, PartialPlans)
    \/ ops < MaxPartialOps /\ ClearData(PartialPlans)
    \/ ops < MaxPartialOps /\ Reload

SpecPartial == Init /\ [][NextPartial]_vars

----------------------------------------------------------------------------
(* Vocabulary of the properties *)

\* the records of a cache tagged with a source, and the others, in order
RecordsFrom(cache, source) ==
    LET from(e) == e.source = source IN SelectSeq(cache, from)
RecordsNotFrom(cache, source) ==
    LET other(e) == e.source # source IN SelectSeq(cache, other)

\* a is the last Len(a) elements of b
IsSuffix(a, b) ==
    /\ Len(a) <= Len(b)
    /\ a = SubSeq(b, Len(b) - Len(a) + 1, Len(b))

\* the last call returned after running saveCachedData()
Returned(op) == last.op = op /\ last.saved /\ ~last.threw

\* this step is a call of op that returns after running saveCachedData()
Returns(op) ==
    ops' = ops + 1 /\ last'.op = op /\ last'.saved /\ ~last'.threw

\* the chunk indices whose key is present
BlobIndices == DOMAIN localStorage.chunks

----------------------------------------------------------------------------
(* C1 *)

\* C1 as stated: after processFile has returned for a file named f right
\* after a processFile of the same name, the cache records whose source is
\* f are exactly the records of the second file.
C1_Original ==
    (Returned("processFile") /\ last.again) =>
        RecordsFrom(cachedData, last.file.name) = ParseFile(last.file).data

\* C1 (amended): after processFile has returned for a file named f right
\* after a processFile of the same name, the cache records whose source is f
\* are a suffix of the records of the second file, so none of the first
\* remains; they are all of them when its saveCachedData() made no
\* whole-persist retry.
C1_ReingestReplaces ==
    (Returned("processFile") /\ last.again) =>
        LET mine == RecordsFrom(cachedData, last.file.name)
            data == ParseFile(last.file).data
        IN /\ IsSuffix(mine, data)
           /\ last.retries = 0 => mine = data

\* a file name was ingested twice in succession, the second batch of another
\* size than the records it replaced, and the cache holds exactly that batch
C1_Witness ==
    /\ Returned("processFile") /\ last.again
    /\ last.removed > 0
    /\ last.retries = 0
    /\ Len(ParseFile(last.file).data) \notin {0, last.removed}
    /\ RecordsFrom(cachedData, last.file.name) = ParseFile(last.file).data

----------------------------------------------------------------------------
(* C2 *)

\* C2 as stated: clearData() leaves an empty uploaded-file list, no record
\* of a source other than the backend, and every backend record the cache
\* held, in order.
C2_Original ==
    [][Returns("clearData") =>
          /\ userUploadedFiles' = <<>>
          /\ RecordsNotFrom(cachedData', BACKEND) = <<>>
          /\ RecordsFrom(cachedData', BACKEND) =
                RecordsFrom(cachedData, BACKEND)
      ]_vars

\* C2 (amended): clearData() leaves an empty uploaded-file list and no record
\* of a source other than the backend; the backend records it leaves are a
\* suffix of those the cache held, and all of them when its saveCachedData()
\* made no whole-persist retry.
C2_ClearKeepsBackend ==
    [][Returns("clearData") =>
          /\ userUploadedFiles' = <<>>
          /\ RecordsNotFrom(cachedData', BACKEND) = <<>>
          /\ IsSuffix(RecordsFrom(cachedData', BACKEND),
                      RecordsFrom(cachedData, BACKEND))
          /\ last'.retries = 0 =>
                cachedData' = RecordsFrom(cachedData, BACKEND)
      ]_vars

\* clearData() has removed uploaded records and kept backend records
C2_Witness ==
    /\ Returned("clearData")
    /\ last.removed > 0
    /\ last.retries = 0
    /\ cachedData # <<>>
    /\ userUploadedFiles = <<>>

----------------------------------------------------------------------------
(* C3 *)

----------------------------------------------------------------------------
(* C4 *)

\* C4: when a call has ended with a saveCachedData() in which no setItem
\* threw, a fresh process over the same store loads a cache equal to the
\* cache of the process before: the same records in the same order.
C4_RoundTrip ==
    [][(/\ Returned(last.op) /\ last.fails = 0
        /\ ops' = ops + 1 /\ last'.op = "reload")
          => cachedData' = cachedData
      ]_vars

\* a fresh process has loaded at least two records that a saveCachedData()
\* without a failed write had stored
C4_Witness ==
    /\ last.op = "reload"
    /\ last.afterCleanSave
    /\ Len(cachedData) >= 2

----------------------------------------------------------------------------
(* C5 *)

\* C5: in every state reachable from the empty store, whichever setItem
\* calls throw, the persisted chunk count is at most MAX_CHUNKS and at
\* most MAX_CHUNKS chunk blobs are present.
C5_ChunkBudget ==
    /\ StoredChunkCount(localStorage) <= MAX_CHUNKS
    /\ Cardinality(BlobIndices) <= MAX_CHUNKS

\* a cache of more records than MAX_CHUNKS is stored in exactly MAX_CHUNKS
\* chunks
C5_Witness ==
    /\ Len(cachedData) > MAX_CHUNKS
    /\ StoredChunkCount(localStorage) = MAX_CHUNKS
    /\ BlobIndices = 0..(MAX_CHUNKS - 1)

----------------------------------------------------------------------------
(* C6 *)

\* C6 as stated: when a call has returned, a chunk blob is present at index
\* i exactly when 0 <= i < the persisted chunk count.
C6_Original ==
    (\E op \in {"processFile", "loadBackendData", "clearData"} : Returned(op))
        => BlobIndices = 0..(StoredChunkCount(localStorage) - 1)

----------------------------------------------------------------------------
(* C7 *)

\* C7: a call that runs saveCachedData() - processFile of a file that
\* parses, loadBackendData() with a dataset that loads, clearData() -
\* returns normally, whichever setItem calls throw.
C7_PersistNeverThrows == last.saved => ~last.threw

\* a call has returned although every setItem threw and the retries of
\* saveCachedData() filled the stack
C7_Witness ==
    /\ last.saved /\ ~last.threw
    /\ last.retries = StackDepth
    /\ localStorage = EmptyStorage

----------------------------------------------------------------------------
(* C8 *)

\* the value is a SearchResult object
IsSearchResult(r) ==
    /\ DOMAIN r = {"text", "foundInKnowledgeBase", "searchDetails"}
    /\ r.foundInKnowledgeBase \in BOOLEAN
    /\ DOMAIN r.searchDetails =
          {"totalRecords", "searchTerms", "conditions", "requestedColumns",
           "availableColumns", "sources"}

\* the result reports an error: nothing found, no record, no term, no
\* column, no source
IsErrorResult(r) ==
    /\ IsSearchResult(r)
    /\ r.text = [kind |-> "error"]
    /\ ~r.foundInKnowledgeBase
    /\ r.searchDetails.totalRecords = 0
    /\ r.searchDetails.searchTerms = <<>>
    /\ r.searchDetails.requestedColumns = <<>>
    /\ r.searchDetails.availableColumns = <<>>
    /\ r.searchDetails.sources = <<>>

\* C8: searchKnowledgeBase(query) returns a SearchResult for every query
\* and every cache and never throws; when its evaluation throws inside
\* (a null entry restored from the store), the result is the error result:
\* foundInKnowledgeBase false, totalRecords 0, no search term, column or
\* source.
C8_SearchNeverThrows ==
    last.op = "search" =>
        /\ ~last.threw
        /\ IsSearchResult(last.result)
        /\ (last.caught \/ HasNull(last.rows)) => IsErrorResult(last.result)

\* a search over a cache with a null entry restored from the store has
\* thrown inside and returned the error result
C8_Witness ==
    /\ last.op = "search" /\ ~last.threw
    /\ HasNull(cachedData)
    /\ last.caught
    /\ IsErrorResult(last.result)

----------------------------------------------------------------------------
(* C9 *)

\* the first k entries of the cache
FirstEntries(k) == SubSeq(cachedData, 1, Min(k, Len(cachedData)))

\* the search just made is a command for the first n records, over a cache
\* that is not empty
AskedTop(n) ==
    last.op = "search" /\ last.query \in TopQueries(n) /\ cachedData # <<>>

----------------------------------------------------------------------------
(* C10 *)

\* the last k entries of the cache
LastEntries(k) ==
    SubSeq(cachedData, Len(cachedData) - Min(k, Len(cachedData)) + 1,
           Len(cachedData))

\* C10 as stated: over a cache of L records, a command for the last N >= 0
\* records selects the records [L - min(N, L), L) in cache order and
\* reports totalRecords min(N, L).
C10_Original ==
    \A n \in 0..MaxCount :
        (/\ last.op = "search" /\ last.query \in BottomQueries(n)
         /\ ~HasNull(cachedData))
          => /\ last.rows = LastEntries(n)
             /\ last.result.searchDetails.totalRecords =
                   Len(LastEntries(n))

----------------------------------------------------------------------------
(* C11 *)

\* the result reports that no record matches
IsNoMatchResult(r) ==
    /\ IsSearchResult(r)
    /\ r.text = [kind |-> "no match"]
    /\ ~r.foundInKnowledgeBase
    /\ r.searchDetails.totalRecords = 0

\* C11: a query that matches no row pattern and whose every token is a
\* stop word, shorter than 3 characters or all digits yields no search term
\* and the "no matching records" result, with foundInKnowledgeBase false
\* and totalRecords 0, whatever the cache holds.
C11_NoTermsNoMatch ==
    (last.op = "search" /\ last.query \in NoTermQueries) =>
        /\ last.result.searchDetails.searchTerms = <<>>
        /\ IsNoMatchResult(last.result)

\* such a query, with a number that is the id of a record of the cache,
\* has found nothing
C11_Witness ==
    /\ last.op = "search"
    /\ Len(last.query) > 12 /\ last.query[12] = "1"
    /\ last.query \in NoTermQueries
    /\ \E i \in 1..Len(cachedData) :
          ~IsNull(cachedData[i]) /\ cachedData[i].id = 101
    /\ IsNoMatchResult(last.result)

----------------------------------------------------------------------------
(* C12 *)

\* the positions of the cache that hold a record of one of the drugs
NamedAt(drugs) ==
    {i \in 1..Len(cachedData) :
        ~IsNull(cachedData[i]) /\ cachedData[i].drug_name \in drugs}

\* the first of them
FirstNamed(drugs) ==
    cachedData[CHOOSE i \in NamedAt(drugs) : \A j \in NamedAt(drugs) : i <= j]

\* the search just made is the free-text query q, and the cache holds a
\* record that q names
AskedDrugs(q) ==
    last.op = "search" /\ last.query = q.query /\ NamedAt(q.drugs) # {}

----------------------------------------------------------------------------
(* C13 *)

----------------------------------------------------------------------------
(* C14 *)

\* C14: when processFile throws (unsupported extension, unreadable file,
\* file with no data), the cache, the uploaded-file list and the store are
\* as they were before the call.
C14_ErrorNoMutation ==
    [][(ops' = ops + 1 /\ last'.op = "processFile" /\ last'.threw) =>
          UNCHANGED <<cachedData, userUploadedFiles, localStorage>>
      ]_vars

\* processFile has thrown over a cache of two records or more and a store
\* that holds them
C14_Witness ==
    /\ last.op = "processFile" /\ last.threw
    /\ Len(cachedData) >= 2
    /\ userUploadedFiles # <<>>
    /\ StoredChunkCount(localStorage) >= 2

----------------------------------------------------------------------------
(* C15 *)

\* the file is readable and has rows, and every value of every row is empty
ZeroUsable(file) ==
    /\ file.readable
    /\ file.n >= 1
    /\ \A i \in 1..file.n : FileRows(file.ver, file.n)[i] = BlankRow

\* C15 as stated: processFile of a file with zero usable rows throws instead
\* of returning an empty batch (and so leaves the records cached for the
\* file name and the uploaded-file list as they were): no call of
\* processFile for such a file returns.
C15_Original ==
    (last.op = "processFile" /\ ~last.threw) => ~ZeroUsable(last.file)

----------------------------------------------------------------------------
(* C16 *)

\* a call that runs saveCachedData() has returned
Mutated ==
    \E op \in {"processFile", "loadBackendData", "clearData"} : Returned(op)

\* what a fresh process would load from the store
Restored == LoadCachedData(localStorage, <<>>)

\* C16 as stated: after each completed processFile, loadBackendData or
\* clearData, what loadCachedData() would read from the store is the cache
\* as that call left it, never an older one.
C16_Original == Mutated => Restored.cache = cachedData

\* C16 (amended): after each completed processFile, loadBackendData or
\* clearData whose last persist attempt met no failing write, what
\* loadCachedData() would read from the store is the cache and the
\* uploaded-file list as that call left them; after a failing write the
\* store may hold an older or a partial snapshot.
C16_StoreCurrent ==
    (Mutated /\ last.clean) =>
        /\ Restored.cache = cachedData
        /\ Restored.files = userUploadedFiles

\* a call whose first persist attempt failed has returned, and the store
\* holds the pruned cache of its second attempt
C16_Witness ==
    /\ Mutated /\ last.clean
    /\ last.retries = 1
    /\ cachedData # <<>>
    /\ Restored.cache = cachedData

----------------------------------------------------------------------------
(* C17 *)

\* the file names of the overlapping calls, and the batches of a name
AsyncNames == {file.name : file \in AsyncFiles}
BatchesOf(name) ==
    {ParseFile(file).data : file \in {g \in AsyncFiles : g.name = name}}

\* C17 as stated: whatever the interleaving of overlapping processFile
\* calls for the same file name with each other and with searches, in every
\* state the cache holds for a file name no record or exactly the records
\* of one complete batch.
C17_Original ==
    \A name \in AsyncNames :
        RecordsFrom(cachedData, name) \in BatchesOf(name) \cup {<<>>}

\* C17 (amended): whatever the interleaving, in every state the records the
\* cache holds for a file name are a suffix of one batch (never records of
\* two batches); they are one complete batch right after a processFile of
\* that name whose saveCachedData() made no whole-persist retry; and the
\* cache changes only in the step in which a processFile runs to its end,
\* which removes the old batch and appends the new one at once.
C17_AtomicReplace ==
    /\ [](\A name \in AsyncNames :
            \E batch \in BatchesOf(name) :
                IsSuffix(RecordsFrom(cachedData, name), batch))
    /\ []((Returned("processFile") /\ last.retries = 0) =>
            RecordsFrom(cachedData, last.file.name) = ParseFile(last.file).data)
    /\ [][cachedData' # cachedData =>
            (ops' = ops + 1 /\ last'.op = "processFile" /\ last'.saved)
         ]_vars

\* a processFile has replaced the batch of a file name by its own while
\* another call for the same name was reading
C17_Witness ==
    /\ Returned("processFile")
    /\ last.retries = 0
    /\ last.removed > 0
    /\ \E file \in last.during : file.name = last.file.name
    /\ RecordsFrom(cachedData, last.file.name) = ParseFile(last.file).data

----------------------------------------------------------------------------
(* C18 *)

\* ceil(n / MAX_CHUNKS), and the number of chunks of n records
PerChunk(n) == (n + MAX_CHUNKS - 1) \div MAX_CHUNKS
ChunkCount(n) ==
    IF n = 0 THEN 0 ELSE (n + PerChunk(n) - 1) \div PerChunk(n)

\* the records of the cache that chunk i holds when each chunk holds per
ChunkSlice(i, per) ==
    SubSeq(cachedData, i * per + 1, Min((i + 1) * per, Len(cachedData)))

\* C18: after a saveCachedData() in which no setItem threw, over a cache of
\* n records, the chunk count stored is ceil(n / ceil(n / MAX_CHUNKS)) (0
\* when n = 0) and chunk i holds the records [i per, (i + 1) per) of the
\* cache, per = ceil(n / MAX_CHUNKS): contiguous slices, each but the last
\* of per records, that concatenate to the cache.
C18_ChunkArithmetic ==
    (Mutated /\ last.fails = 0) =>
        LET n == Len(cachedData)
        IN /\ localStorage.count = Holding(NumToString(ChunkCount(n)))
           /\ \A i \in 0..(ChunkCount(n) - 1) :
                 /\ i \in BlobIndices
                 /\ localStorage.chunks[i] =
                       Compress(JsonStringify(ChunkSlice(i, PerChunk(n))))

\* a cache of more records than MAX_CHUNKS, not a multiple of the chunk
\* size, is stored in chunks of two records and a last chunk of one
C18_Witness ==
    /\ Mutated /\ last.fails = 0
    /\ Len(cachedData) > MAX_CHUNKS
    /\ PerChunk(Len(cachedData)) = 2
    /\ Len(cachedData) % 2 = 1
    /\ StoredChunkCount(localStorage) = ChunkCount(Len(cachedData))
    /\ Len(LoadedChunk(localStorage, ChunkCount(Len(cachedData)) - 1)) = 1

----------------------------------------------------------------------------
(* C19 *)

\* C19 (as stated): when a chunk write and its retry over 70% of the chunk
\* both throw during the persist of processFile(), only that chunk is given
\* up: the chunk count of that persist is still written and the cache keeps
\* every record of the file just ingested.
C19_Original ==
    (Returned("processFile") /\ last.aborted) =>
        /\ last.retries = 0
        /\ RecordsFrom(cachedData, last.file.name) = ParseFile(last.file).data

----------------------------------------------------------------------------
(* C20 *)

\* C20 (as stated): when the persist of clearData() over the n backend
\* records it kept fails once and is retried, the cache afterwards is the
\* last floor(0.6 n) of those records, for every n >= 0.
C20_Original ==
    [][(last'.op = "clearData" /\ last'.saved /\ last'.retries = 1) =>
          LET kept == OnlySource(cachedData, BACKEND)
              n == Len(kept)
              k == (6 * n) \div 10
          IN cachedData' = SubSeq(kept, n - k + 1, n)]_vars

----------------------------------------------------------------------------
(* C21 *)

\* the indices below the stored count whose blob decompresses and parses to
\* an array, and the array of such an index
ReadableIndices(store) ==
    {i \in DOMAIN store.chunks :
        /\ i < StoredChunkCount(store)
        /\ store.chunks[i].lz
        /\ store.chunks[i].body.json
        /\ store.chunks[i].body.val.array}
ArrayAt(store, i) == store.chunks[i].body.val.items

\* the arrays of the indices S, concatenated by ascending index
RECURSIVE InIndexOrder(_, _)
InIndexOrder(store, S) ==
    IF S = {} THEN <<>>
    ELSE LET i == CHOOSE k \in S : \A j \in S : k <= j
         IN ArrayAt(store, i) \o InIndexOrder(store, S \ {i})

\* this step is a fresh process running loadCachedData()
Restores == ops' = ops + 1 /\ last'.op = "reload"

\* C21 (as stated): loadCachedData() leaves in the cache the arrays of the
\* readable chunks of index below the stored count, in index order, and
\* nothing else.
C21_Original ==
    [][Restores => cachedData' = InIndexOrder(localStorage,
                                     ReadableIndices(localStorage))]_vars

\* C21: the same, when the file list of the store is absent or parses; when
\* it does not parse, loadCachedData() leaves the cache and the list empty.
C21_RestoreReads ==
    [][Restores =>
          IF IsPresent(localStorage.files)
                /\ ~ValueOf(localStorage.files).json
          THEN cachedData' = <<>> /\ userUploadedFiles' = <<>>
          ELSE cachedData' = InIndexOrder(localStorage,
                                 ReadableIndices(localStorage))]_vars

\* a process starts over a store with a readable chunk after an unreadable
\* or missing one and a present blob at or above the count, and reads the
\* readable chunk
C21_Witness ==
    /\ last.op = "reload"
    /\ \E i, j \in 0..SmallBatch :
          /\ i < j /\ j \in ReadableIndices(localStorage)
          /\ i \notin ReadableIndices(localStorage)
          /\ ArrayAt(localStorage, j) # <<>>
    /\ \E k \in BlobIndices : k >= StoredChunkCount(localStorage)
    /\ cachedData # <<>>
    /\ cachedData = InIndexOrder(localStorage, ReadableIndices(localStorage))

----------------------------------------------------------------------------
(* C22 *)

\* C22: the first row pattern in declaration order that matches decides the
\* command.  A query that matches a verb-top and a verb-bottom pattern
\* selects the first N records, N the number after top, whichever phrase
\* comes first; a leading top gives way to a verb-bottom pattern; and a
\* query that matches a row pattern and names a drug is no free-text
\* search: it has no search term and its text is no record content.
C22_PatternOrder ==
    \A q \in OrderedQueries :
        (last.op = "search" /\ last.query = q.query) =>
            /\ last.rows = IF q.type = "top" THEN FirstEntries(q.count)
                           ELSE LastEntries(q.count)
            /\ last.result.text.kind \in {"showing", "no data", "error"}
            /\ last.result.searchDetails.searchTerms = <<>>
            /\ last.result.text.kind = "showing" =>
                  last.result.text.which =
                      IF q.type = "top" THEN "first" ELSE "last"

\* a query whose bottom phrase comes before its top phrase has selected the
\* first records of a longer cache, which are not its last ones
C22_Witness ==
    \E q \in OrderedQueries :
        /\ last.op = "search" /\ last.query = q.query
        /\ q.type = "top"
        /\ VerbPattern(q.query, BottomWords) # -1
        /\ \E i, j \in 1..Len(q.query) :
              /\ i < j
              /\ VerbKeywordCountAt(q.query, i, BottomWords) # -1
              /\ VerbKeywordCountAt(q.query, j, TopWords) # -1
        /\ Len(cachedData) > q.count
        /\ last.rows = FirstEntries(q.count)
        /\ last.rows # LastEntries(VerbPattern(q.query, BottomWords))
        /\ last.result.text.kind = "showing"
        /\ last.result.text.which = "first"

----------------------------------------------------------------------------
(* C23 *)

\* the records of the cache whose drug is one of drugs, in cache order
Named(drugs) ==
    LET named(e) == ~IsNull(e) /\ e.drug_name \in drugs
    IN SelectSeq(cachedData, named)

\* the result counts the records rows and lists each of their sources once
ReportsRows(r, rows) ==
    /\ r.searchDetails.totalRecords = Len(rows)
    /\ {r.searchDetails.sources[k] :
           k \in 1..Len(r.searchDetails.sources)} =
          {rows[k].source : k \in 1..Len(rows)}
    /\ Len(r.searchDetails.sources) =
          Cardinality({rows[k].source : k \in 1..Len(rows)})

----------------------------------------------------------------------------
(* C24 *)

\* the term is lower case, of 3 characters or more, no stop word and not
\* made of digits only
IsTerm(term) ==
    /\ Len(term) >= 3
    /\ term \notin StopWords
    /\ \E i \in 1..Len(term) :
          term[i] \notin {"0", "1", "2", "3", "4", "5", "6", "7", "8", "9"}
    /\ \A i \in 1..Len(term) :
          term[i] \notin {UpperCase[k] : k \in 1..Len(UpperCase)}
    /\ \A i \in 1..Len(term) : term[i] \notin {" ", ".", ",", "?", "!"}

\* C24: the search terms of a free-text query are its tokens in query
\* order, lower case, split at white space after '.', ',', '?' and '!'
\* became spaces, without the tokens shorter than 3 characters, the stop
\* words and the tokens of digits only; no term reported by any search is
\* a stop word, shorter than 3 characters or all digits.
C24_SearchTerms ==
    /\ \A q \in TermQueries :
          (last.op = "search" /\ last.query = q.query /\ ~last.caught) =>
              last.result.searchDetails.searchTerms = q.terms
    /\ last.op = "search" =>
          \A k \in 1..Len(last.result.searchDetails.searchTerms) :
              IsTerm(last.result.searchDetails.searchTerms[k])

\* a query with a stop word, a number, punctuation, capitals and a token
\* twice has given its four terms in order
C24_Witness ==
    /\ last.op = "search" /\ ~last.caught
    /\ cachedData # <<>>
    /\ Len(last.result.searchDetails.searchTerms) = 4
    /\ last.result.searchDetails.searchTerms[2] =
          last.result.searchDetails.searchTerms[3]
    /\ last.result.searchDetails.searchTerms[4] = Aspirin
    /\ last.result.foundInKnowledgeBase

----------------------------------------------------------------------------
(* C25 *)

\* C25 (as stated): a record of the cache carries a citation marker exactly
\* when it is a backend record; a record of an uploaded file, CSV or
\* workbook, carries none.
C25_Original ==
    \A i \in 1..Len(cachedData) :
        cachedData[i].content.marker # 0 <=> cachedData[i].source = BACKEND

----------------------------------------------------------------------------
(* C26 *)

\* the names of the list, and getLoadedFiles() without a name twice
Listed == {userUploadedFiles[k] : k \in 1..Len(userUploadedFiles)}
ListedOnce == Cardinality(Listed) = Len(userUploadedFiles)

\* C26: within a process the uploaded-file list holds no name twice; a
\* processFile that returns adds the name of its file at the end when the
\* list does not hold it and leaves the list as it is, in length and in
\* order, when it does; clearData empties the list; a processFile that
\* throws and loadBackendData leave it as it is.  So the list is the names
\* ingested since the last clearData, each once, in order of first upload.
C26_FileList ==
    /\ []ListedOnce
    /\ [][(last'.op = "processFile" /\ last'.saved /\ ops' = ops + 1) =>
            userUploadedFiles' =
                IF last'.file.name \in Listed THEN userUploadedFiles
                ELSE userUploadedFiles \o <<last'.file.name>>]_vars
    /\ [][(last'.op = "clearData" /\ ops' = ops + 1) =>
            userUploadedFiles' = <<>>]_vars
    /\ [][(/\ ops' = ops + 1
           /\ \/ last'.op = "loadBackendData"
              \/ last'.op = "processFile" /\ ~last'.saved) =>
            userUploadedFiles' = userUploadedFiles]_vars

\* b.xlsx, then a.csv, then b.xlsx again: the list still holds b.xlsx
\* before a.csv
C26_Witness ==
    /\ Returned("processFile")
    /\ last.file.name = "b.xlsx"
    /\ last.removed > 0
    /\ userUploadedFiles = <<"b.xlsx", "a.csv">>

----------------------------------------------------------------------------
(* C27 *)

\* C27 (as stated): the chain of whole-persist retries of a call of
\* saveCachedData() ends by itself, for every cache and every pattern of
\* throwing writes: it never takes all the StackDepth frames the call stack
\* has.
C27_Original == last.saved => last.retries < StackDepth

----------------------------------------------------------------------------
(* C28 *)

\* the blobs loadCachedData() would read: those present at an index below
\* the stored count
ReadBlobs(store) ==
    [i \in {j \in DOMAIN store.chunks : j < StoredChunkCount(store)} |->
        store.chunks[i]]

\* the cache the first attempt of the persist of this step works on
FirstSnapshot ==
    IF last'.op = "processFile"
    THEN RecordsNotFrom(cachedData, last'.file.name)
            \o ParseFile(last'.file).data
    ELSE RecordsFrom(cachedData, BACKEND)

\* the caches the attempts of a persist work on: the first, and each one
\* pruned for the attempt after it
RECURSIVE Snapshots(_, _)
Snapshots(cache, attempts) ==
    IF attempts = 0 THEN {}
    ELSE {cache} \cup Snapshots(ReducedData(cache), attempts - 1)

\* every blob that would be read is chunk i of a persist of snapshot, whole
\* or cut to 70% by the retry of its write
FromOneAttempt(store, snapshot) ==
    LET n == Len(snapshot)
        per == PerChunk(n)
    IN \A i \in DOMAIN ReadBlobs(store) :
          /\ i * per < n
          /\ LET chunk == SubSeq(snapshot, i * per + 1,
                                 Min((i + 1) * per, n))
                 cut == SubSeq(chunk, 1, (7 * Len(chunk)) \div 10)
             IN store.chunks[i] \in
                   {Compress(JsonStringify(chunk)),
                    Compress(JsonStringify(cut))}

\* C28: a call that persists leaves the blobs loadCachedData() would read
\* as they were, or leaves there only chunks that one of its attempts wrote
\* from the snapshot of that attempt; any other step leaves the store as
\* it is.  So in every state the chunks that would be read come from one
\* attempt over one snapshot of the cache.
C28_OneAttempt ==
    /\ [][(ops' = ops + 1 /\ last'.saved) =>
            \/ ReadBlobs(localStorage') = ReadBlobs(localStorage)
            \/ \E snapshot \in Snapshots(FirstSnapshot, StackDepth) :
                  FromOneAttempt(localStorage', snapshot)]_vars
    /\ [][~last'.saved => localStorage' = localStorage]_vars

\* after a persist with a throwing write the store holds a chunk that would
\* be read, next to a blob at or above the count that an attempt before
\* left, and what would be read is not the cache
C28_Witness ==
    /\ last.saved /\ last.fails > 0
    /\ DOMAIN ReadBlobs(localStorage) # {}
    /\ \E k \in BlobIndices :
          /\ k >= StoredChunkCount(localStorage)
          /\ \A i \in DOMAIN ReadBlobs(localStorage) :
                localStorage.chunks[i] # localStorage.chunks[k]
    /\ Restored.cache # cachedData
    /\ Restored.cache # <<>>

----------------------------------------------------------------------------
(* C29 *)

\* the source and the batch of a pending call: an upload or the backend load
IsUpload(call) == "name" \in DOMAIN call
SourceOf(call) == IF IsUpload(call) THEN call.name ELSE BACKEND
BatchOf(call) ==
    IF IsUpload(call) THEN ParseFile(call).data ELSE ParseBackend(call).data

OverlapSources == {file.name : file \in OverlapFiles} \cup {BACKEND}

\* C29: with no throwing write, the commit of a pending processFile or
\* loadBackendData leaves in the cache its whole batch under its source and
\* the records of every other source as they were, and an upload's name in
\* the list with the names that were there; a call that starts changes
\* nothing.  So when all calls have completed the cache holds the whole
\* batch of the last commit of every source and every uploaded name is
\* listed.
C29_NoLostUpdate ==
    /\ [][\A call \in reading \ reading' :
            /\ RecordsFrom(cachedData', SourceOf(call)) = BatchOf(call)
            /\ \A s \in OverlapSources \ {SourceOf(call)} :
                  RecordsFrom(cachedData', s) = RecordsFrom(cachedData, s)
            /\ Len(cachedData') =
                  Len(RecordsNotFrom(cachedData, SourceOf(call)))
                     + Len(BatchOf(call))
            /\ Listed \subseteq
                  {userUploadedFiles'[k] : k \in 1..Len(userUploadedFiles')}
            /\ IsUpload(call) =>
                  \E k \in 1..Len(userUploadedFiles') :
                      userUploadedFiles'[k] = call.name]_vars
    /\ [][reading \subseteq reading' =>
            UNCHANGED <<cachedData, userUploadedFiles>>]_vars

\* a.csv was committed while the backend load, started before, is still
\* pending, and the batch of b.xlsx committed earlier is still whole
C29_Witness ==
    /\ Returned("processFile")
    /\ last.file.name = "a.csv"
    /\ \E call \in last.during : ~IsUpload(call)
    /\ \E call \in reading : ~IsUpload(call)
    /\ ops >= 3
    /\ userUploadedFiles = <<"b.xlsx", "a.csv">>
    /\ RecordsFrom(cachedData, "b.xlsx") =
          ParseFile(UserFile("b.xlsx", 1, SmallBatch)).data
    /\ RecordsFrom(cachedData, "a.csv") = ParseFile(last.file).data
    /\ Len(cachedData) = Len(RecordsFrom(cachedData, "b.xlsx"))
                            + Len(RecordsFrom(cachedData, "a.csv"))

----------------------------------------------------------------------------
(* C30 *)

\* C30: in every state, also after failed writes and in a fresh process
\* that loaded the store, every record of the cache that is no backend
\* record has its source in the uploaded-file list; and processFile adds no
\* backend record: the backend records after it are those before it, or a
\* suffix of them when the persist pruned the cache.
C30_SourcesListed ==
    /\ [](\A i \in 1..Len(cachedData) :
             cachedData[i].source # BACKEND =>
                 cachedData[i].source \in Listed)
    /\ [][(ops' = ops + 1 /\ last'.op = "processFile") =>
             IsSuffix(RecordsFrom(cachedData', BACKEND),
                      RecordsFrom(cachedData, BACKEND))]_vars

\* a fresh process over the store that a persist with a throwing write
\* left holds records of an uploaded file, whose name it lists
C30_Witness ==
    /\ last.op = "reload"
    /\ ~last.afterCleanSave
    /\ \E i \in 1..Len(cachedData) : cachedData[i].source # BACKEND
    /\ \E i \in 1..Len(cachedData) : cachedData[i].source = BACKEND
    /\ \A i \in 1..Len(cachedData) :
          cachedData[i].source # BACKEND => cachedData[i].source \in Listed

====
